---- MODULE Spec2Model ----
(***************************************************************************)
(* Model of the OpenAI-to-CLI adapter (src/src/adapter/openai-to-cli.ts).  *)
(*                                                                         *)
(* A JavaScript string is a sequence of one-character strings, so that     *)
(* prefix stripping, joining and trimming are computed character by        *)
(* character.  Every exported function is one action that runs the whole   *)
(* call; a call either returns or throws.                                  *)
(***************************************************************************)
EXTENDS Integers, Sequences, FiniteSets, TLC

(***************************************************************************)
(* Bounds of the explored inputs.                                          *)
(***************************************************************************)
MaxPrefixes == 2
MaxStrLen == 2
MaxParts == 2
MaxMsgs == 2

(***************************************************************************)
(* String literals of the source.                                          *)
(***************************************************************************)
CLAUDE_OPUS_4 == <<"c", "l", "a", "u", "d", "e", "-", "o", "p", "u", "s", "-", "4">>
CLAUDE_SONNET_4 == <<"c", "l", "a", "u", "d", "e", "-", "s", "o", "n", "n", "e", "t", "-", "4">>
CLAUDE_HAIKU_4 == <<"c", "l", "a", "u", "d", "e", "-", "h", "a", "i", "k", "u", "-", "4">>
OPUS == <<"o", "p", "u", "s">>
SONNET == <<"s", "o", "n", "n", "e", "t">>
HAIKU == <<"h", "a", "i", "k", "u">>
\* The literal matched by the regular expression /^claude-code-cli\//.
PROVIDER_PREFIX == <<"c", "l", "a", "u", "d", "e", "-", "c", "o", "d", "e", "-", "c", "l", "i", "/">>

\* The three values of the type ClaudeModel.
ClaudeModel == {"opus", "sonnet", "haiku"}

\* The own properties of the object literal MODEL_MAP.
MODEL_MAP ==
    (CLAUDE_OPUS_4 :> "opus") @@ (CLAUDE_SONNET_4 :> "sonnet") @@ (CLAUDE_HAIKU_4 :> "haiku")
    @@ ((PROVIDER_PREFIX \o CLAUDE_OPUS_4) :> "opus")
    @@ ((PROVIDER_PREFIX \o CLAUDE_SONNET_4) :> "sonnet")
    @@ ((PROVIDER_PREFIX \o CLAUDE_HAIKU_4) :> "haiku")
    @@ (OPUS :> "opus") @@ (SONNET :> "sonnet") @@ (HAIKU :> "haiku")

\* MODEL_MAP is written as an object literal, so its prototype is
\* Object.prototype and a property read that finds no own property goes on to
\* the members every object inherits.  Each of them is a function, but for
\* __proto__, which is the prototype object itself.
ObjectPrototype ==
    (<<"c", "o", "n", "s", "t", "r", "u", "c", "t", "o", "r">> :> "[Function: Object]")
    @@ (<<"t", "o", "S", "t", "r", "i", "n", "g">> :> "[Function: toString]")
    @@ (<<"v", "a", "l", "u", "e", "O", "f">> :> "[Function: valueOf]")
    @@ (<<"t", "o", "L", "o", "c", "a", "l", "e", "S", "t", "r", "i", "n", "g">>
           :> "[Function: toLocaleString]")
    @@ (<<"h", "a", "s", "O", "w", "n", "P", "r", "o", "p", "e", "r", "t", "y">>
           :> "[Function: hasOwnProperty]")
    @@ (<<"i", "s", "P", "r", "o", "t", "o", "t", "y", "p", "e", "O", "f">>
           :> "[Function: isPrototypeOf]")
    @@ (<<"p", "r", "o", "p", "e", "r", "t", "y", "I", "s", "E", "n", "u", "m", "e", "r", "a", "b", "l", "e">>
           :> "[Function: propertyIsEnumerable]")
    @@ (<<"_", "_", "p", "r", "o", "t", "o", "_", "_">> :> "[Object: null prototype]")

\* The value of the expression MODEL_MAP[key]: the own property, else the
\* inherited one, else undefined.
Get(key) ==
    IF key \in DOMAIN MODEL_MAP THEN MODEL_MAP[key]
    ELSE IF key \in DOMAIN ObjectPrototype THEN ObjectPrototype[key]
    ELSE "undefined"

\* The truthiness test of if (MODEL_MAP[...]): an alias is a non-empty string
\* and a function or an object is truthy; only undefined is falsy here.
Truthy(v) == v # "undefined"

StartsWith(s, p) == Len(s) >= Len(p) /\ SubSeq(s, 1, Len(p)) = p

\* A variant that removes every leading occurrence.
StripGlobal(model) ==
    LET RECURSIVE strip(_)
        strip(s) == IF StartsWith(s, PROVIDER_PREFIX)
                    THEN strip(SubSeq(s, Len(PROVIDER_PREFIX) + 1, Len(s)))
                    ELSE s
    IN  strip(model)

\* model.replace(/^claude-code-cli\//, ""): the pattern is anchored and has
\* no flags, so it removes at most one occurrence, at the very start,
\* matching case.
StripPrefix(model) ==
    IF StartsWith(model, PROVIDER_PREFIX)
    THEN SubSeq(model, Len(PROVIDER_PREFIX) + 1, Len(model))
    ELSE model

\* A variant without the second lookup.
ExtractModelNoStrip(model) ==
    IF Truthy(Get(model)) THEN Get(model) ELSE "opus"

extractModel(model) ==
    IF Truthy(Get(model)) THEN Get(model)
    ELSE LET stripped == StripPrefix(model)
         IN  IF Truthy(Get(stripped)) THEN Get(stripped)
             ELSE "opus"

(***************************************************************************)
(* Values of the request.  A value of every shape has the same fields, so  *)
(* that values of different shapes can be compared.                        *)
(***************************************************************************)
\* OpenAIContentPart: type, and the optional text (hasText says whether the
\* property is there).
Part(type, hasText, text) == [type |-> type, hasText |-> hasText, text |-> text]

\* The content of a message.  kind is what typeof and Array.isArray tell
\* apart: "string", "array", and the shapes the declared type leaves out
\* ("null", "undefined", "number", "boolean", "object").  keys are the own
\* properties of an object that hide a conversion method of Object.prototype;
\* a value parsed from JSON is never a function, so a hidden method is not
\* callable.
Content(kind, str, arr, num, keys) ==
    [kind |-> kind, str |-> str, arr |-> arr, num |-> num, keys |-> keys]
StringContent(str) == Content("string", str, <<>>, 0, {})
ArrayContent(arr) == Content("array", <<>>, arr, 0, {})
NullContent == Content("null", <<>>, <<>>, 0, {})
UndefinedContent == Content("undefined", <<>>, <<>>, 0, {})
NumberContent(num) == Content("number", <<>>, <<>>, num, {})
BooleanContent == Content("boolean", <<>>, <<>>, 1, {})
ObjectContent(keys) == Content("object", <<>>, <<>>, 0, keys)

Message(role, content) == [role |-> role, content |-> content]

\* An optional string: request.user and CliInput.sessionId.
Absent == [present |-> FALSE, str |-> <<>>]
Present(str) == [present |-> TRUE, str |-> str]

(***************************************************************************)
(* String operations of the language.                                      *)
(***************************************************************************)
\* WhiteSpace and LineTerminator characters, which String.prototype.trim
\* removes.
IsWhiteSpace(c) == c \in {" ", "\t", "\n", "\r", "\f"}

RECURSIVE TrimStart(_)
TrimStart(s) ==
    IF s # <<>> /\ IsWhiteSpace(Head(s)) THEN TrimStart(Tail(s)) ELSE s

RECURSIVE TrimEnd(_)
TrimEnd(s) ==
    IF s # <<>> /\ IsWhiteSpace(s[Len(s)]) THEN TrimEnd(SubSeq(s, 1, Len(s) - 1)) ELSE s

\* s.trim()
Trim(s) == TrimEnd(TrimStart(s))

\* strs.join(sep)
RECURSIVE Join(_, _)
Join(strs, sep) ==
    IF strs = <<>> THEN <<>>
    ELSE IF Len(strs) = 1 THEN Head(strs)
    ELSE Head(strs) \o sep \o Join(Tail(strs), sep)

Digit(d) == <<"0", "1", "2", "3", "4", "5", "6", "7", "8", "9">>[d + 1]

\* Number::toString of a non-negative integer: its decimal digits.
RECURSIVE NumberToString(_)
NumberToString(n) ==
    IF n < 10 THEN <<Digit(n)>> ELSE NumberToString(n \div 10) \o <<Digit(n % 10)>>

\* String(content) of a value that is neither a string nor an array throws a
\* TypeError when the value is an object with no callable toString and no
\* valueOf that returns a primitive: OrdinaryToPrimitive finds the own
\* toString property, which is not callable, and Object.prototype.valueOf (or
\* an own valueOf, not callable either) gives no primitive.
StringThrows(content) == content.kind = "object" /\ "toString" \in content.keys

\* String(content) where it returns.
String(content) ==
    CASE content.kind = "string" -> content.str
      [] content.kind = "null" -> <<"n", "u", "l", "l">>
      [] content.kind = "undefined" -> <<"u", "n", "d", "e", "f", "i", "n", "e", "d">>
      [] content.kind = "number" -> NumberToString(content.num)
      [] content.kind = "boolean" -> <<"t", "r", "u", "e">>
      [] content.kind = "object" ->
           <<"[", "o", "b", "j", "e", "c", "t", " ", "O", "b", "j", "e", "c", "t", "]">>

(***************************************************************************)
(* The prompt flattener.                                                   *)
(***************************************************************************)
\* A variant that looks at the payload alone.
HasPayload(part) == part.hasText /\ part.text # <<>>

\* The callback of filter: part.type === "text" && part.text
IsTextPart(part) == part.type = "text" /\ part.hasText /\ part.text # <<>>

\* content.filter(...).map((part) => part.text!)
RECURSIVE FilterMap(_)
FilterMap(arr) ==
    IF arr = <<>> THEN <<>>
    ELSE IF IsTextPart(Head(arr)) THEN <<Head(arr).text>> \o FilterMap(Tail(arr))
    ELSE FilterMap(Tail(arr))

extractContent(content) ==
    IF content.kind = "string" THEN content.str
    ELSE IF content.kind = "array" THEN Join(FilterMap(content.arr), <<>>)
    ELSE String(content)

SYSTEM_OPEN == <<"<", "s", "y", "s", "t", "e", "m", ">", "\n">>
SYSTEM_CLOSE == <<"\n", "<", "/", "s", "y", "s", "t", "e", "m", ">", "\n">>
PREVIOUS_RESPONSE_OPEN ==
    <<"<", "p", "r", "e", "v", "i", "o", "u", "s", "_", "r", "e", "s", "p", "o", "n", "s", "e", ">", "\n">>
PREVIOUS_RESPONSE_CLOSE ==
    <<"\n", "<", "/", "p", "r", "e", "v", "i", "o", "u", "s", "_", "r", "e", "s", "p", "o", "n", "s", "e", ">", "\n">>

\* A variant that pushes nothing for an empty text.
PushSkipEmpty(parts, role, text) ==
    CASE text = <<>> -> parts
      [] text # <<>> /\ role = "system" -> Append(parts, SYSTEM_OPEN \o text \o SYSTEM_CLOSE)
      [] text # <<>> /\ role = "user" -> Append(parts, text)
      [] text # <<>> /\ role = "assistant" ->
           Append(parts, PREVIOUS_RESPONSE_OPEN \o text \o PREVIOUS_RESPONSE_CLOSE)
      [] OTHER -> parts

\* The switch on msg.role: the array parts after the message is handled.
\* There is no default case.
Push(parts, role, text) ==
    CASE role = "system" -> Append(parts, SYSTEM_OPEN \o text \o SYSTEM_CLOSE)
      [] role = "user" -> Append(parts, text)
      [] role = "assistant" ->
           Append(parts, PREVIOUS_RESPONSE_OPEN \o text \o PREVIOUS_RESPONSE_CLOSE)
      [] OTHER -> parts

\* The for loop, from message i on.  The locals when it ends: the texts
\* extracted so far, the array parts, and whether extractContent threw, which
\* ends the loop and the call.
RECURSIVE Loop(_, _, _, _)
Loop(messages, i, texts, parts) ==
    IF i > Len(messages) THEN [thrown |-> FALSE, texts |-> texts, parts |-> parts]
    ELSE IF messages[i].content.kind \notin {"string", "array"}
            /\ StringThrows(messages[i].content)
    THEN [thrown |-> TRUE, texts |-> texts, parts |-> parts]
    ELSE LET text == extractContent(messages[i].content)
         IN  Loop(messages, i + 1, Append(texts, text),
                  Push(parts, messages[i].role, text))

\* messagesToPrompt(messages): the locals, and the returned string unless
\* the call threw.
messagesToPrompt(messages) ==
    LET loop == Loop(messages, 1, <<>>, <<>>)
    IN  [thrown |-> loop.thrown, texts |-> loop.texts, parts |-> loop.parts,
         prompt |-> IF loop.thrown THEN <<>> ELSE Trim(Join(loop.parts, <<"\n">>))]

(***************************************************************************)
(* The request converter.                                                  *)
(***************************************************************************)
NoCli == [prompt |-> <<>>, model |-> "none", sessionId |-> Absent]

\* A variant that gives an absent user the empty session.
OpenaiToCliDefaultSession(request) ==
    LET flat == messagesToPrompt(request.messages)
    IN  [thrown |-> flat.thrown, flat |-> flat,
         alias |-> IF flat.thrown THEN "none" ELSE extractModel(request.model),
         cli |-> IF flat.thrown THEN NoCli
                 ELSE [prompt |-> flat.prompt, model |-> extractModel(request.model),
                       sessionId |-> Present(request.user.str)]]

\* A variant that starts no session for a streaming request.
OpenaiToCliReadsStream(request) ==
    LET flat == messagesToPrompt(request.messages)
    IN  [thrown |-> flat.thrown, flat |-> flat,
         alias |-> IF flat.thrown THEN "none" ELSE extractModel(request.model),
         cli |-> IF flat.thrown THEN NoCli
                 ELSE [prompt |-> flat.prompt, model |-> extractModel(request.model),
                       sessionId |-> IF request.params.stream = "true" THEN Absent
                                     ELSE request.user]]

\* openaiToCli(request): the properties of the object literal are evaluated
\* in order, so extractModel runs only when messagesToPrompt returned.  flat
\* and alias are what the two calls gave, cli the returned record.
openaiToCli(request) ==
    LET flat == messagesToPrompt(request.messages)
    IN  [thrown |-> flat.thrown, flat |-> flat,
         alias |-> IF flat.thrown THEN "none" ELSE extractModel(request.model),
         cli |-> IF flat.thrown THEN NoCli
                 ELSE [prompt |-> flat.prompt, model |-> extractModel(request.model),
                       sessionId |-> request.user]]

(***************************************************************************)
(* The inputs explored.                                                    *)
(***************************************************************************)
RECURSIVE Repeat(_, _)
Repeat(s, n) == IF n = 0 THEN <<>> ELSE s \o Repeat(s, n - 1)

\* All sequences over S of length at most n.
SeqsUpTo(S, n) == UNION {[1..k -> S] : k \in 0..n}

\* Model identifiers: a lead, a base name and a trail.  The leads are the
\* prefix repeated, the prefix after another character and the prefix in
\* another letter case; the bases are the bare names and aliases, names in
\* another letter case, names that hold a known name, unknown names, the
\* empty string and names of inherited members.
Leads ==
    {Repeat(PROVIDER_PREFIX, n) : n \in 0..MaxPrefixes}
    \cup {<<"x">> \o PROVIDER_PREFIX,
          <<"C", "l", "a", "u", "d", "e", "-", "C", "o", "d", "e", "-", "C", "L", "I", "/">>}
Bases ==
    {CLAUDE_OPUS_4, CLAUDE_SONNET_4, CLAUDE_HAIKU_4, OPUS, SONNET, HAIKU,
     <<>>,
     <<"O", "p", "u", "s">>, <<"S", "O", "N", "N", "E", "T">>,
     <<"c", "l", "a", "u", "d", "e", "-", "s", "o", "n", "n", "e", "t", "-", "4", "-", "5">>,
     <<"g", "p", "t", "-", "4">>,
     <<"c", "o", "n", "s", "t", "r", "u", "c", "t", "o", "r">>,
     <<"t", "o", "S", "t", "r", "i", "n", "g">>,
     <<"_", "_", "p", "r", "o", "t", "o", "_", "_">>}
Trails == {<<>>, <<"x">>, <<" ">>}
Ids == {lead \o base \o trail : lead \in Leads, base \in Bases, trail \in Trails}

Roles == {"system", "user", "assistant", "tool"}
Chars == {"a", " ", "\n"}
Strings == SeqsUpTo(Chars, MaxStrLen)

\* Content parts: text parts with a payload, with an empty one and with
\* none, and image parts without and with a text property.
Parts ==
    {Part("text", TRUE, <<"a">>), Part("text", TRUE, <<"b">>), Part("text", TRUE, <<>>),
     Part("text", FALSE, <<>>), Part("image_url", FALSE, <<>>),
     Part("image_url", TRUE, <<"c">>)}
TextImageText ==
    ArrayContent(<<Part("text", TRUE, <<"a">>), Part("image_url", FALSE, <<>>),
                   Part("text", TRUE, <<"b">>)>>)

\* Contents of the declared type, and of the shapes it leaves out.
TypedContents ==
    {StringContent(str) : str \in Strings}
    \cup {ArrayContent(arr) : arr \in SeqsUpTo(Parts, MaxParts)}
    \cup {TextImageText}
UntypedContents ==
    {NullContent, UndefinedContent, NumberContent(0), NumberContent(42), BooleanContent,
     ObjectContent({}), ObjectContent({"valueOf"}), ObjectContent({"toString"})}
Contents == TypedContents \cup UntypedContents

\* The contents of the messages of the longer sequences.
FewContents ==
    {StringContent(<<>>), StringContent(<<"a">>), StringContent(<<" ">>),
     TextImageText, NullContent, ObjectContent({"toString"})}

SystemSUserU ==
    <<Message("system", StringContent(<<"S">>)), Message("user", StringContent(<<"U">>))>>

MessageLists ==
    {<<Message(role, content)>> : role \in Roles, content \in Contents}
    \cup SeqsUpTo({Message(role, content) : role \in Roles, content \in FewContents}, MaxMsgs)
    \cup {SystemSUserU}

\* The generation parameters of a request: each is absent or set.
Params(stream, temperature, max_tokens, top_p, frequency_penalty, presence_penalty) ==
    [stream |-> stream, temperature |-> temperature, max_tokens |-> max_tokens,
     top_p |-> top_p, frequency_penalty |-> frequency_penalty,
     presence_penalty |-> presence_penalty]
NoParams == Params("absent", "absent", "absent", "absent", "absent", "absent")
ParamSets ==
    {NoParams,
     Params("true", "0.7", "256", "0.9", "0.5", "0.5"),
     Params("false", "absent", "1024", "absent", "absent", "1")}

Request(model, messages, user, params) ==
    [model |-> model, messages |-> messages, user |-> user, params |-> params]

Requests ==
    {Request(model, messages, user, params) :
       model \in {CLAUDE_SONNET_4, PROVIDER_PREFIX \o HAIKU,
                  <<"c", "o", "n", "s", "t", "r", "u", "c", "t", "o", "r">>,
                  <<"g", "p", "t", "-", "4">>},
       messages \in {<<>>, SystemSUserU,
                     <<Message("user", TextImageText),
                       Message("tool", StringContent(<<"a">>)),
                       Message("assistant", NullContent)>>,
                     <<Message("user", ObjectContent({"toString"}))>>},
       user \in {Absent, Present(<<>>), Present(<<"a", "b", "c">>),
                 Present(<<" ", "a", " ">>)},
       params \in ParamSets}

(***************************************************************************)
(* The state: the call under way or just ended, and the conversion before  *)
(* it.  The functions keep nothing between calls.                          *)
(***************************************************************************)
VARIABLES
    pc,        \* "idle", or "done" when a call has ended
    fn,        \* the exported function called
    model,     \* extractModel: the argument
    alias,     \* extractModel: the value returned, "none" when not called
    messages,  \* messagesToPrompt: the argument
    texts,     \* messagesToPrompt: the text extracted from each message
    parts,     \* messagesToPrompt: the array parts
    prompt,    \* messagesToPrompt: the value returned
    thrown,    \* whether the call threw
    request,   \* openaiToCli: the argument
    cli,       \* openaiToCli: the value returned
    prev       \* the conversion made before this call, when there is one

vars == <<pc, fn, model, alias, messages, texts, parts, prompt, thrown, request, cli, prev>>

NoRequest == Request(<<>>, <<>>, Absent, NoParams)
NoCall == [called |-> FALSE, request |-> NoRequest, thrown |-> FALSE, cli |-> NoCli]

Init ==
    /\ pc = "idle"
    /\ fn = "none"
    /\ model = <<>>
    /\ alias = "none"
    /\ messages = <<>>
    /\ texts = <<>>
    /\ parts = <<>>
    /\ prompt = <<>>
    /\ thrown = FALSE
    /\ request = NoRequest
    /\ cli = NoCli
    /\ prev = NoCall

\* A call of extractModel(m).
ExtractModel(m) ==
    /\ pc = "idle"
    /\ prev = NoCall
    /\ pc' = "done"
    /\ fn' = "extractModel"
    /\ model' = m
    /\ alias' = extractModel(m)
    /\ UNCHANGED <<messages, texts, parts, prompt, thrown, request, cli, prev>>

\* A call of messagesToPrompt(ms).
MessagesToPrompt(ms) ==
    /\ pc = "idle"
    /\ prev = NoCall
    /\ LET flat == messagesToPrompt(ms)
       IN  /\ texts' = flat.texts
           /\ parts' = flat.parts
           /\ prompt' = flat.prompt
           /\ thrown' = flat.thrown
    /\ pc' = "done"
    /\ fn' = "messagesToPrompt"
    /\ messages' = ms
    /\ UNCHANGED <<model, alias, request, cli, prev>>

\* A call of openaiToCli(req), with the two calls it makes.
OpenaiToCli(req) ==
    /\ pc = "idle"
    /\ LET call == openaiToCli(req)
       IN  /\ messages' = req.messages
           /\ texts' = call.flat.texts
           /\ parts' = call.flat.parts
           /\ prompt' = call.flat.prompt
           /\ thrown' = call.thrown
           /\ model' = IF call.thrown THEN <<>> ELSE req.model
           /\ alias' = call.alias
           /\ cli' = call.cli
    /\ pc' = "done"
    /\ fn' = "openaiToCli"
    /\ request' = req
    /\ UNCHANGED prev

\* The caller takes the result.  Nothing of the call stays behind; a first
\* conversion is kept aside to compare the next one with.
Return ==
    /\ pc = "done"
    /\ pc' = "idle"
    /\ prev' = IF fn = "openaiToCli" /\ prev = NoCall
               THEN [called |-> TRUE, request |-> request, thrown |-> thrown, cli |-> cli]
               ELSE NoCall
    /\ fn' = "none"
    /\ model' = <<>>
    /\ alias' = "none"
    /\ messages' = <<>>
    /\ texts' = <<>>
    /\ parts' = <<>>
    /\ prompt' = <<>>
    /\ thrown' = FALSE
    /\ request' = NoRequest
    /\ cli' = NoCli

Next ==
    \/ \E m \in Ids : ExtractModel(m)
    \/ \E ms \in MessageLists : MessagesToPrompt(ms)
    \/ \E req \in Requests : OpenaiToCli(req)
    \/ Return

Spec == Init /\ [][Next]_vars

(***************************************************************************)
(* The model resolver.                                                     *)
(***************************************************************************)
\* extractModel has run in the call that just ended.
Resolved == pc = "done" /\ alias # "none"

\* The table keys mapped to an alias.
NamesOf(a) == {key \in DOMAIN MODEL_MAP : MODEL_MAP[key] = a}

\* C1: for every model identifier, also one that is not in the table, the
\* empty one and the name of an inherited member such as "constructor",
\* extractModel returns one of opus, sonnet, haiku, and so the model of every
\* CLI input openaiToCli returns is one of the three.
ModelAlwaysInClosedSet ==
    /\ Resolved => alias \in ClaudeModel
    /\ pc = "done" /\ fn = "openaiToCli" /\ ~thrown => cli.model \in ClaudeModel

\* C2: for every key M of the table (three bare names, three prefixed names,
\* three aliases), extractModel(M) is the alias the table gives M, and
\* extractModel(prefix + M) is the same alias, also when M starts with the
\* prefix itself.
TableKeysResolve ==
    /\ DOMAIN MODEL_MAP =
         {CLAUDE_OPUS_4, CLAUDE_SONNET_4, CLAUDE_HAIKU_4}
         \cup {PROVIDER_PREFIX \o name : name \in {CLAUDE_OPUS_4, CLAUDE_SONNET_4, CLAUDE_HAIKU_4}}
         \cup {OPUS, SONNET, HAIKU}
    /\ Resolved =>
         \A key \in DOMAIN MODEL_MAP :
             (model = key \/ model = PROVIDER_PREFIX \o key) => alias = MODEL_MAP[key]

\* A key that starts with the prefix has been resolved behind one more prefix.
TableKeysResolveWitness ==
    /\ Resolved
    /\ model = PROVIDER_PREFIX \o PROVIDER_PREFIX \o CLAUDE_SONNET_4
    /\ alias = "sonnet"

\* C3: every model identifier that is not a key of the table resolves to the
\* default alias "opus".
NonKeysResolveToOpus ==
    Resolved /\ model \notin DOMAIN MODEL_MAP => alias = "opus"

\* Where C3 holds: neither the identifier nor what is left of it after the
\* prefix is removed is a key of the table or the name of an inherited member.
UnmatchedResolveToOpus ==
    Resolved
    /\ {model, StripPrefix(model)} \cap (DOMAIN MODEL_MAP \cup DOMAIN ObjectPrototype) = {}
    => alias = "opus"

\* The identifiers that match no key although they are close to one.
TwicePrefixed(names) == {PROVIDER_PREFIX \o PROVIDER_PREFIX \o name : name \in names}
OtherCase ==
    {lead \o base \o trail :
       lead \in {<<>>, PROVIDER_PREFIX}, trail \in Trails,
       base \in {<<"O", "p", "u", "s">>, <<"S", "O", "N", "N", "E", "T">>}}
    \cup {<<"C", "l", "a", "u", "d", "e", "-", "C", "o", "d", "e", "-", "C", "L", "I", "/">> \o key :
            key \in {CLAUDE_OPUS_4, CLAUDE_SONNET_4, CLAUDE_HAIKU_4, OPUS, SONNET, HAIKU}}
PrefixNotAtStart == {<<"x">> \o PROVIDER_PREFIX \o key : key \in DOMAIN MODEL_MAP}
HoldsKnownName ==
    {lead \o key \o trail :
       lead \in {<<>>, PROVIDER_PREFIX}, key \in DOMAIN MODEL_MAP, trail \in {<<"x">>, <<" ">>}}
    \cup {<<"c", "l", "a", "u", "d", "e", "-", "s", "o", "n", "n", "e", "t", "-", "4", "-", "5">>}
\* A non-default alias is returned only on an exact match.
OnlyExactMatch ==
    Resolved =>
      \A a \in {"sonnet", "haiku"} :
          alias = a => model \in NamesOf(a) \cup {PROVIDER_PREFIX \o key : key \in NamesOf(a)}
\* C10 as written: sonnet or haiku is returned only on an exact match of
\* the identifier, or of the identifier less one leading prefix, with a key
\* mapped to that alias; and an identifier in another letter case, with the
\* prefix not at the start, with the prefix twice before a bare name or an
\* alias, or that merely holds a known name, resolves to opus.
ExactMatchOnlyAsWritten ==
    /\ OnlyExactMatch
    /\ Resolved
       /\ model \in OtherCase \cup PrefixNotAtStart \cup HoldsKnownName
                    \cup TwicePrefixed({CLAUDE_OPUS_4, CLAUDE_SONNET_4, CLAUDE_HAIKU_4,
                                        OPUS, SONNET, HAIKU})
       => alias = "opus"

\* C10, amended: as written, but of the identifiers with the prefix twice
\* only those before an alias word resolve to opus; the prefix twice before
\* a bare name leaves a prefixed key when one prefix is removed, and resolves
\* to the alias of that key.
ExactMatchOnly ==
    /\ OnlyExactMatch
    /\ Resolved
       /\ model \in OtherCase \cup PrefixNotAtStart \cup HoldsKnownName
                    \cup TwicePrefixed({OPUS, SONNET, HAIKU})
       => alias = "opus"
    /\ Resolved
       => \A name \in {CLAUDE_OPUS_4, CLAUDE_SONNET_4, CLAUDE_HAIKU_4} :
              model = PROVIDER_PREFIX \o PROVIDER_PREFIX \o name
              => alias = MODEL_MAP[PROVIDER_PREFIX \o name]

\* The alias sonnet behind two prefixes has been resolved, to opus.
ExactMatchOnlyWitness ==
    /\ Resolved
    /\ model = PROVIDER_PREFIX \o PROVIDER_PREFIX \o SONNET
    /\ alias = "opus"

(***************************************************************************)
(* The prompt flattener.                                                   *)
(***************************************************************************)
\* messagesToPrompt has run in the call that just ended.
Flattened == pc = "done" /\ fn \in {"messagesToPrompt", "openaiToCli"}

\* The messages are of the declared type: role and content.
KnownRoles(ms) == \A i \in 1..Len(ms) : ms[i].role \in {"system", "user", "assistant"}
TypedContent(ms) == \A i \in 1..Len(ms) : ms[i].content.kind \in {"string", "array"}

\* The fragments up to the n-th, each followed by a newline but the last.
RECURSIVE JoinedUpTo(_, _)
JoinedUpTo(frags, n) ==
    IF n = 0 THEN <<>>
    ELSE IF n = 1 THEN frags[1]
    ELSE JoinedUpTo(frags, n - 1) \o <<"\n">> \o frags[n]

\* t is s without the white space at its two ends.
IsTrimOf(t, s) ==
    \E i, j \in 0..Len(s) :
        /\ i + j <= Len(s)
        /\ t = SubSeq(s, i + 1, Len(s) - j)
        /\ \A k \in 1..i : IsWhiteSpace(s[k])
        /\ \A k \in (Len(s) - j + 1)..Len(s) : IsWhiteSpace(s[k])
        /\ t = <<>> \/ (~IsWhiteSpace(t[1]) /\ ~IsWhiteSpace(t[Len(t)]))

\* The fragment of a message of a known role whose text is text.
Fragment(role, text) ==
    CASE role = "system" -> SYSTEM_OPEN \o text \o SYSTEM_CLOSE
      [] role = "assistant" -> PREVIOUS_RESPONSE_OPEN \o text \o PREVIOUS_RESPONSE_CLOSE
      [] role = "user" -> text

\* C4: for messages with roles system, user and assistant, messagesToPrompt
\* returns the fragments, one for each message in the order of the messages
\* (also for an empty text), joined by one newline and trimmed; a system
\* fragment is the text between "<system>\n" and "\n</system>\n", an
\* assistant fragment the text between "<previous_response>\n" and
\* "\n</previous_response>\n", a user fragment the text; no messages give "",
\* [system:"S", user:"U"] gives "<system>\nS\n</system>\n\nU", and the result
\* has no white space at either end.
PromptIsTrimmedJoin ==
    Flattened /\ KnownRoles(messages) /\ TypedContent(messages) =>
      /\ ~thrown
      /\ Len(parts) = Len(messages)
      /\ \A i \in 1..Len(messages) : parts[i] = Fragment(messages[i].role, texts[i])
      /\ IsTrimOf(prompt, JoinedUpTo(parts, Len(parts)))
      /\ messages = <<>> => prompt = <<>>
      /\ messages = SystemSUserU =>
           prompt = <<"<", "s", "y", "s", "t", "e", "m", ">", "\n", "S", "\n",
                      "<", "/", "s", "y", "s", "t", "e", "m", ">", "\n", "\n", "U">>

\* A system message with an empty text and a user message of one blank have
\* been flattened: two fragments, and a prompt that ends with the tag.
PromptIsTrimmedJoinWitness ==
    /\ Flattened /\ ~thrown
    /\ messages = <<Message("system", StringContent(<<>>)), Message("user", StringContent(<<" ">>))>>
    /\ Len(parts) = 2
    /\ prompt = <<"<", "s", "y", "s", "t", "e", "m", ">", "\n", "\n",
                  "<", "/", "s", "y", "s", "t", "e", "m", ">">>

\* The payloads of the first n parts that are text parts with a payload
\* that is there and not empty, one after the other.
RECURSIVE Payloads(_, _)
Payloads(arr, n) ==
    IF n = 0 THEN <<>>
    ELSE Payloads(arr, n - 1)
         \o (IF arr[n].type = "text" /\ arr[n].hasText /\ Len(arr[n].text) > 0
             THEN arr[n].text ELSE <<>>)

\* C5: the text of a message whose content is a sequence of parts is the
\* payloads of the text parts that have a non-empty payload, in order and
\* with nothing between them; an image part (also one with a text field) and
\* a text part with no payload or an empty one add nothing, so [text "a",
\* image_url, text "b"] gives "ab" and a sequence with no such part gives "".
ArrayTextIsPayloads ==
    Flattened =>
      \A i \in 1..Len(texts) :
          messages[i].content.kind = "array" =>
            /\ texts[i] = Payloads(messages[i].content.arr, Len(messages[i].content.arr))
            /\ messages[i].content = TextImageText => texts[i] = <<"a", "b">>
            /\ (\A k \in 1..Len(messages[i].content.arr) :
                   \/ messages[i].content.arr[k].type # "text"
                   \/ ~messages[i].content.arr[k].hasText
                   \/ messages[i].content.arr[k].text = <<>>)
               => texts[i] = <<>>

\* An image part with a text field before a text part has been read.
ArrayTextIsPayloadsWitness ==
    /\ Flattened /\ Len(texts) = 1
    /\ messages[1].content =
         ArrayContent(<<Part("image_url", TRUE, <<"c">>), Part("text", TRUE, <<"b">>)>>)
    /\ texts[1] = <<"b">>

\* The messages of a known role, in order.
RECURSIVE WithoutUnknownRoles(_)
WithoutUnknownRoles(ms) ==
    IF ms = <<>> THEN <<>>
    ELSE IF Head(ms).role \in {"system", "user", "assistant"}
    THEN <<Head(ms)>> \o WithoutUnknownRoles(Tail(ms))
    ELSE WithoutUnknownRoles(Tail(ms))

\* C8: a message of another role gives no fragment and no error: for every
\* sequence of messages, messagesToPrompt returns what it returns for the
\* sequence without the messages of another role.
UnknownRoleDropped ==
    Flattened /\ ~messagesToPrompt(WithoutUnknownRoles(messages)).thrown =>
      /\ ~thrown
      /\ prompt = messagesToPrompt(WithoutUnknownRoles(messages)).prompt

\* Where C8 holds: the content of every message has a textual representation.
UnknownRoleDroppedUnlessThrown ==
    Flattened /\ (\A i \in 1..Len(messages) : ~StringThrows(messages[i].content)) =>
      /\ ~thrown
      /\ prompt = messagesToPrompt(WithoutUnknownRoles(messages)).prompt
      /\ Len(parts) = Len(WithoutUnknownRoles(messages))

\* C9: a content that is neither a string nor a sequence of parts (null,
\* absent, a number, a plain record) never makes the conversion fail: its
\* text is the textual representation of the value, and the message is
\* formatted by its role and joined like any other.
UntypedContentCoerced ==
    Flattened =>
      /\ ~thrown
      /\ \A i \in 1..Len(messages) :
             messages[i].content.kind \notin {"string", "array"} =>
               /\ texts[i] = String(messages[i].content)
               /\ KnownRoles(messages) => parts[i] = Fragment(messages[i].role, texts[i])

\* Where C9 holds: the record has no own property named toString.
UntypedContentCoercedUnlessThrown ==
    Flattened =>
      /\ thrown <=> \E i \in 1..Len(messages) : StringThrows(messages[i].content)
      /\ ~thrown =>
           \A i \in 1..Len(messages) :
               /\ messages[i].content.kind = "null" => texts[i] = <<"n", "u", "l", "l">>
               /\ messages[i].content = NumberContent(42) => texts[i] = <<"4", "2">>
               /\ messages[i].content.kind = "object" =>
                    texts[i] = <<"[", "o", "b", "j", "e", "c", "t", " ",
                                 "O", "b", "j", "e", "c", "t", "]">>

(***************************************************************************)
(* The request converter.                                                  *)
(***************************************************************************)
Converted == pc = "done" /\ fn = "openaiToCli"

\* C6: openaiToCli is a composition: the prompt of the result is
\* messagesToPrompt(request.messages), its model extractModel(request.model)
\* and its sessionId request.user as it is: absent when the user is absent,
\* the empty string when the user is the empty string, not trimmed.
ConversionIsComposition ==
    Converted =>
      /\ thrown <=> messagesToPrompt(request.messages).thrown
      /\ ~thrown =>
           /\ cli.prompt = messagesToPrompt(request.messages).prompt
           /\ cli.model = extractModel(request.model)
           /\ cli.sessionId.present <=> request.user.present
           /\ request.user.present => cli.sessionId.str = request.user.str
           /\ ~request.user.present => cli.sessionId = Absent

\* A request with no user has been converted.
ConversionIsCompositionWitness ==
    /\ Converted /\ ~thrown
    /\ request.messages = SystemSUserU
    /\ request.model = PROVIDER_PREFIX \o HAIKU
    /\ ~request.user.present
    /\ cli = [prompt |-> prompt, model |-> "haiku", sessionId |-> Absent]

\* C7: two requests with equal model, messages and user give equal CLI
\* inputs, whatever their generation parameters and whichever call came
\* first: the conversion is deterministic, keeps nothing between calls and
\* does not read the generation parameters.
EqualRequestsEqualResults ==
    Converted /\ prev.called
    /\ prev.request.model = request.model
    /\ prev.request.messages = request.messages
    /\ prev.request.user = request.user
    => prev.thrown = thrown /\ prev.cli = cli

\* Two requests that differ in their generation parameters alone have been
\* converted.
EqualRequestsEqualResultsWitness ==
    /\ Converted /\ prev.called /\ ~thrown
    /\ prev.request.model = request.model
    /\ prev.request.messages = request.messages
    /\ prev.request.user = request.user
    /\ prev.request.params.stream = "true"
    /\ request.params.stream = "absent"
    /\ request.user.present
    /\ prev.cli = cli

====
